---------------------------- MODULE Spec2Model ----------------------------
(***************************************************************************)
(* Model of src/r2a/r2a_Ingrid.py: the controller r2a_Ingrid (rolling      *)
(* throughput buffer, request timing, the four message handlers and the    *)
(* two lifecycle hooks) and the engine Adaptive_Segment_Manager (the       *)
(* throughput deque, mean / variability, probability, tau / theta and the  *)
(* quality decision).                                                      *)
(*                                                                         *)
(* Python values are modelled as follows.                                  *)
(*   - float results are exact rationals <<num, den>>, den > 0, in lowest  *)
(*     terms; throughput samples are integers because every bit length    *)
(*     the model offers is a multiple of every positive elapsed time;      *)
(*   - an attribute that may hold None is the set {} (None) or {v};        *)
(*   - a list or deque is a sequence, Python index i being position i+1;   *)
(*   - the result of a call is [tag |-> "ok", val |-> v] or a record       *)
(*     whose tag names the exception raised.                               *)
(***************************************************************************)
EXTENDS Integers, Sequences, FiniteSets, TLC

VARIABLES
    recent_throughputs,      \* r2a_Ingrid.recent_throughputs
    request_start_time,      \* r2a_Ingrid.request_start_time ({} is None)
    quality_options,         \* r2a_Ingrid.quality_options
    active_quality_level,    \* r2a_Ingrid.active_quality_level ({} is None)
    throughput_records,      \* Adaptive_Segment_Manager.throughput_records
    throughput_mean,         \* Adaptive_Segment_Manager.throughput_mean
    throughput_variability,  \* Adaptive_Segment_Manager.throughput_variability
    event,                   \* the last call made by the host and how it ended
    sent,                    \* what that call passed to send_down / send_up
    recorded,                \* every sample given to add_throughput_record
                             \* since the buffer was last emptied
    n_recorded,              \* how many samples were recorded since construction
    session,                 \* "running" between the two lifecycle hooks
    returned                 \* result of the last direct call of the engine

vars == <<recent_throughputs, request_start_time, quality_options,
          active_quality_level, throughput_records, throughput_mean,
          throughput_variability, event, sent, recorded, session, n_recorded, returned>>

controller == <<recent_throughputs, request_start_time, quality_options,
                active_quality_level>>

engine == <<throughput_records, throughput_mean, throughput_variability>>

-----------------------------------------------------------------------------
(* Bounds of the model *)

MaxTime == 1          \* time.time() reads a value in 0 .. MaxTime
MaxBitUnits == 1      \* a message carries 0 .. MaxBitUnits units of bits
MaxLevels == 2        \* a manifest lists 0 .. MaxLevels quality levels
MaxRecorded == 6      \* samples recorded in one run
MaxList == 3          \* length of a list handed to the engine directly
MaxOver == 1          \* samples by which a replacing sequence may exceed the capacity
MaxReplaceRecorded == 2  \* samples recorded in a run that also replaces directly
MaxDecisionLevels == 4  \* levels of a list handed to the engine directly
MaxIndex == 5         \* a direct call passes an index in -MaxIndex .. MaxIndex

(* Program constants *)

max_throughput_records == 5

-----------------------------------------------------------------------------
(* Python values *)

None == {}

Some(v) == {v}

IsNone(x) == x = {}

Get(x) == CHOOSE v \in x : TRUE

Ok(v) == [tag |-> "ok", val |-> v]

Raise(e) == [tag |-> e, val |-> 0]

RECURSIVE Gcd(_, _)
Gcd(a, b) == IF b = 0 THEN a ELSE Gcd(b, a % b)

Abs(a) == IF a < 0 THEN -a ELSE a

\* the rational n / d (d # 0) in lowest terms with a positive denominator
Rat(n, d) ==
    LET g == Gcd(Abs(n), Abs(d))
        s == IF d < 0 THEN -1 ELSE 1
    IN  <<(s * n) \div g, (s * d) \div g>>

Int2Rat(i) == <<i, 1>>

RAdd(a, b) == Rat(a[1] * b[2] + b[1] * a[2], a[2] * b[2])

RSub(a, b) == Rat(a[1] * b[2] - b[1] * a[2], a[2] * b[2])

RMul(a, b) == Rat(a[1] * b[1], a[2] * b[2])

RDiv(a, b) == Rat(a[1] * b[2], a[2] * b[1])

RLeq(a, b) == a[1] * b[2] <= b[1] * a[2]

RECURSIVE RSum(_)
RSum(s) == IF s = <<>> THEN Int2Rat(0) ELSE RAdd(Head(s), RSum(Tail(s)))

\* Python 3 round(x) of a float to an int: to the nearest, a tie to the even
PyRound(r) ==
    LET q == r[1] \div r[2]
        rem == r[1] - q * r[2]
    IN  IF 2 * rem < r[2] THEN q
        ELSE IF 2 * rem > r[2] THEN q + 1
        ELSE IF q % 2 = 0 THEN q ELSE q + 1

Max(a, b) == IF a >= b THEN a ELSE b

Min(a, b) == IF a <= b THEN a ELSE b

\* list(range(K))[i]: Python list indexing, a negative index counts from
\* the end, an index outside -K .. K-1 raises IndexError
RangeItem(K, i) ==
    IF 0 <= i /\ i < K THEN Ok(i)
    ELSE IF -K <= i /\ i < 0 THEN Ok(K + i)
    ELSE Raise("IndexError")

\* deque(maxlen = n) after extend(s) from empty: the last n items of s
Deque(s, n) ==
    IF Len(s) <= n THEN s ELSE SubSeq(s, Len(s) - n + 1, Len(s))


-----------------------------------------------------------------------------
(* Adaptive_Segment_Manager *)

\* calculate_mean_and_variability: <<throughput_mean, throughput_variability>>
\* of the records held
calculate_mean_and_variability(records) ==
    IF records = <<>> THEN <<Int2Rat(0), Int2Rat(0)>>
    ELSE LET n == Int2Rat(Len(records))
             vals == [i \in 1..Len(records) |-> Int2Rat(records[i])]
             mean == RDiv(RSum(vals), n)
             sq == [i \in 1..Len(records) |->
                       RMul(RSub(vals[i], mean), RSub(vals[i], mean))]
         IN  <<mean, RDiv(RSum(sq), n)>>

\* update_throughput_history with a deque that has no maxlen
update_throughput_history_unbounded(recent_throughput_values) ==
    LET records == recent_throughput_values
        mv == calculate_mean_and_variability(records)
    IN  <<records, mv[1], mv[2]>>

\* update_throughput_history: the engine state <<records, mean, variability>>
\* after the call
update_throughput_history(recent_throughput_values) ==
    LET records == Deque(recent_throughput_values, max_throughput_records)
        mv == calculate_mean_and_variability(records)
    IN  <<records, mv[1], mv[2]>>

\* update_throughput_list: the mean is recomputed, the variability is not
update_throughput_list(new_throughput_list, variability) ==
    LET records == Deque(new_throughput_list, max_throughput_records)
        total_records == Len(records)
        mean == IF total_records > 0
                THEN RDiv(RSum([i \in 1..total_records |-> Int2Rat(records[i])]),
                          Int2Rat(total_records))
                ELSE Int2Rat(0)
    IN  <<records, mean, variability>>

\* mutant: the probability defaults to 1 when mean + variability is 0
calculate_probability_default_one(mean, variability) ==
    IF RAdd(mean, variability) # Int2Rat(0)
    THEN RDiv(mean, RAdd(mean, variability))
    ELSE Int2Rat(1)

calculate_probability(mean, variability) ==
    IF RAdd(mean, variability) # Int2Rat(0)
    THEN RDiv(mean, RAdd(mean, variability))
    ELSE Int2Rat(0)

\* mutant: the next level is taken at index + 1 without min(K - 1, .)
calculate_tau_and_theta_unclamped(mean, variability, current_quality_level, K) ==
    LET probability == calculate_probability(mean, variability)
    IN  IF IsNone(current_quality_level) THEN Raise("TypeError")
        ELSE
        LET cur == Get(current_quality_level)
            prev == RangeItem(K, Max(0, cur - 1))
            next == RangeItem(K, cur + 1)
        IN  IF prev.tag # "ok" THEN prev
            ELSE IF next.tag # "ok" THEN next
            ELSE Ok(<<RMul(RSub(Int2Rat(1), probability),
                           Int2Rat(cur - prev.val)),
                      RMul(probability, Int2Rat(next.val - cur))>>)

\* mutant: tau is weighted by the probability and theta by 1 - probability
calculate_tau_and_theta_swapped(mean, variability, current_quality_level, K) ==
    LET probability == calculate_probability(mean, variability)
    IN  IF IsNone(current_quality_level) THEN Raise("TypeError")
        ELSE
        LET cur == Get(current_quality_level)
            prev == RangeItem(K, Max(0, cur - 1))
            next == RangeItem(K, Min(K - 1, cur + 1))
        IN  IF prev.tag # "ok" THEN prev
            ELSE IF next.tag # "ok" THEN next
            ELSE Ok(<<RMul(probability, Int2Rat(cur - prev.val)),
                      RMul(RSub(Int2Rat(1), probability),
                           Int2Rat(next.val - cur))>>)

\* calculate_tau_and_theta; quality_levels is list(range(K)), so only K is
\* passed.  current_quality_level is {} (None) or {i}.
calculate_tau_and_theta(mean, variability, current_quality_level, K) ==
    LET probability == calculate_probability(mean, variability)
    IN  IF IsNone(current_quality_level) THEN Raise("TypeError")
        ELSE
        LET cur == Get(current_quality_level)
            prev == RangeItem(K, Max(0, cur - 1))
            next == RangeItem(K, Min(K - 1, cur + 1))
        IN  IF prev.tag # "ok" THEN prev
            ELSE IF next.tag # "ok" THEN next
            ELSE Ok(<<RMul(RSub(Int2Rat(1), probability),
                           Int2Rat(cur - prev.val)),
                      RMul(probability, Int2Rat(next.val - cur))>>)

\* update_video_quality rounding theta - tau itself, not the current index
\* moved by it
update_video_quality_absolute(mean, variability, current_quality_level, quality_level_list) ==
    IF quality_level_list = <<>> THEN Ok(current_quality_level)
    ELSE
    LET K == Len(quality_level_list)
        tt == calculate_tau_and_theta(mean, variability, current_quality_level, K)
    IN  IF tt.tag # "ok" THEN tt
        ELSE
        LET raw == RSub(tt.val[2], tt.val[1])
            updated_quality_level == PyRound(raw)
        IN  Ok(Some(Max(0, Min(K - 1, updated_quality_level))))

\* update_video_quality: Ok of the returned value ({} or {index}), or the
\* exception raised
update_video_quality(mean, variability, current_quality_level, quality_level_list) ==
    IF quality_level_list = <<>> THEN Ok(current_quality_level)
    ELSE
    LET K == Len(quality_level_list)
        tt == calculate_tau_and_theta(mean, variability, current_quality_level, K)
    IN  IF tt.tag # "ok" THEN tt
        ELSE
        LET cur == Get(current_quality_level)
            raw == RAdd(RSub(Int2Rat(cur), tt.val[1]), tt.val[2])
            updated_quality_level == PyRound(raw)
        IN  Ok(Some(Max(0, Min(K - 1, updated_quality_level))))

\* mutant: the handler calls the decision by the name the class defines
requested_method_defined == "update_video_quality"

\* the method of the engine that process_segment_size_request calls
requested_method == "update_quality"

\* self.segment_size_manager.<method>(current, levels): the attribute lookup
\* on Adaptive_Segment_Manager, then the call.  Of the names the model looks
\* up, the class defines update_video_quality only.
manager_call(method, mean, variability, current, levels) ==
    IF method = "update_video_quality"
    THEN update_video_quality(mean, variability, current, levels)
    ELSE Raise("AttributeError")

-----------------------------------------------------------------------------
(* Messages and the inputs of the host *)

Times == 0..MaxTime

RECURSIVE Factorial(_)
Factorial(n) == IF n <= 1 THEN 1 ELSE n * Factorial(n - 1)

\* get_bit_length(): multiples of a unit every positive elapsed time divides
BitUnit == 2 * Factorial(MaxTime)

BitLengths == {k * BitUnit : k \in 0..MaxBitUnits}

\* parse_mpd(payload).get_qi() of a manifest listing k levels: k identifiers
Qi(k) == [i \in 1..k |-> 100 * i]

\* a message: its bit length, the levels its payload lists (a manifest) and
\* the quality identifiers attached with add_quality_id
Message(bits, levels) == [bits |-> bits, levels |-> levels, quality_id |-> <<>>]

add_quality_id(msg, id) == [msg EXCEPT !.quality_id = <<id>>]

Requests == {Message(0, 0)}

Manifests == {Message(b, k) : b \in BitLengths, k \in 0..MaxLevels}

Segments == {Message(b, 0) : b \in BitLengths}

\* bits / elapsed, exact for the bit lengths above
Throughput(bits, elapsed) == bits \div elapsed

Called(name, msg, raised) == [name |-> name, msg |-> msg, raised |-> raised]

-----------------------------------------------------------------------------
(* r2a_Ingrid *)

\* mutant: the oldest sample is dropped only once the list exceeds the maximum
add_throughput_record_late(throughputs, new_value) ==
    IF Len(throughputs) > max_throughput_records
    THEN Append(Tail(throughputs), new_value)
    ELSE Append(throughputs, new_value)

add_throughput_record(throughputs, new_value) ==
    IF Len(throughputs) >= max_throughput_records
    THEN Append(Tail(throughputs), new_value)
    ELSE Append(throughputs, new_value)

Init ==
    /\ recent_throughputs = <<>>
    /\ request_start_time = Some(0)
    /\ quality_options = <<>>
    /\ active_quality_level = Some(0)
    /\ throughput_records = <<>>
    /\ throughput_mean = Int2Rat(0)
    /\ throughput_variability = Int2Rat(0)
    /\ event = Called("__init__", None, "none")
    /\ sent = <<>>
    /\ recorded = <<>>
    /\ n_recorded = 0
    /\ session = "running"
    /\ returned = Ok(None)

\* process_xml_transaction(xml_message) with time.time() = now;
\* xml_message is {} (None) or {msg}
process_xml_transaction(xml_message, now) ==
    /\ IF ~IsNone(xml_message)
       THEN /\ request_start_time' = Some(now)
            /\ sent' = << <<"down", Get(xml_message)>> >>
       ELSE /\ UNCHANGED request_start_time
            /\ sent' = <<>>
    /\ event' = Called("process_xml_transaction", xml_message, "none")
    /\ UNCHANGED <<recent_throughputs, quality_options, active_quality_level,
                   engine, recorded, session, n_recorded, returned>>

\* mutant: a sample is recorded whenever the elapsed time is not zero
measure_and_send_up_nonzero(name, msg, now) ==
    IF IsNone(request_start_time)
    THEN \* time.time() - None
         /\ event' = Called(name, Some(msg), "TypeError")
         /\ sent' = <<>>
         /\ UNCHANGED <<recent_throughputs, recorded, n_recorded>>
    ELSE LET elapsed_time == now - Get(request_start_time)
         IN  /\ IF elapsed_time # 0
                THEN LET calculated_throughput == Throughput(msg.bits, elapsed_time)
                     IN  /\ n_recorded < MaxRecorded
                         /\ n_recorded' = n_recorded + 1
                         /\ recent_throughputs' =
                              add_throughput_record(recent_throughputs,
                                                    calculated_throughput)
                         /\ recorded' = Append(recorded, calculated_throughput)
                ELSE UNCHANGED <<recent_throughputs, recorded, n_recorded>>
             /\ event' = Called(name, Some(msg), "none")
             /\ sent' = << <<"up", msg>> >>

\* the common tail of the two response handlers: elapsed time, the sample,
\* send_up
measure_and_send_up(name, msg, now) ==
    IF IsNone(request_start_time)
    THEN \* time.time() - None
         /\ event' = Called(name, Some(msg), "TypeError")
         /\ sent' = <<>>
         /\ UNCHANGED <<recent_throughputs, recorded, n_recorded>>
    ELSE LET elapsed_time == now - Get(request_start_time)
         IN  /\ IF elapsed_time > 0
                THEN LET calculated_throughput == Throughput(msg.bits, elapsed_time)
                     IN  /\ n_recorded < MaxRecorded
                         /\ n_recorded' = n_recorded + 1
                         /\ recent_throughputs' =
                              add_throughput_record(recent_throughputs,
                                                    calculated_throughput)
                         /\ recorded' = Append(recorded, calculated_throughput)
                ELSE UNCHANGED <<recent_throughputs, recorded, n_recorded>>
             /\ event' = Called(name, Some(msg), "none")
             /\ sent' = << <<"up", msg>> >>

process_xml_response(xml_data, now) ==
    /\ quality_options' = Qi(xml_data.levels)
    /\ measure_and_send_up("process_xml_response", xml_data, now)
    /\ UNCHANGED <<request_start_time, active_quality_level, engine, session, returned>>

process_segment_size_request(segment_request, now) ==
    LET name == "process_segment_size_request"
        eng == update_throughput_history(recent_throughputs)
        selected == manager_call(requested_method, eng[2], eng[3],
                                 active_quality_level, quality_options)
    IN  /\ request_start_time' = Some(now)
        /\ throughput_records' = eng[1]
        /\ throughput_mean' = eng[2]
        /\ throughput_variability' = eng[3]
        /\ IF selected.tag # "ok"
           THEN /\ UNCHANGED active_quality_level
                /\ sent' = <<>>
                /\ event' = Called(name, Some(segment_request), selected.tag)
           ELSE /\ active_quality_level' = selected.val
                /\ IF IsNone(selected.val)
                   THEN \* 0 <= None
                        /\ sent' = <<>>
                        /\ event' = Called(name, Some(segment_request), "TypeError")
                   ELSE LET selected_quality_index == Get(selected.val)
                            out == IF 0 <= selected_quality_index
                                      /\ selected_quality_index < Len(quality_options)
                                   THEN add_quality_id(segment_request,
                                          quality_options[selected_quality_index + 1])
                                   ELSE segment_request
                        IN  /\ sent' = << <<"down", out>> >>
                            /\ event' = Called(name, Some(segment_request), "none")
        /\ UNCHANGED <<recent_throughputs, quality_options, recorded, session,
                       n_recorded, returned>>

process_segment_size_response(segment_response, now) ==
    /\ measure_and_send_up("process_segment_size_response", segment_response, now)
    /\ UNCHANGED <<request_start_time, quality_options, active_quality_level,
                   engine, session, returned>>

\* initialize_system_resources without the clear() of line 106
initialize_system_resources_keeping_window ==
    /\ request_start_time' = Some(0)
    /\ UNCHANGED recent_throughputs
    /\ active_quality_level' = Some(0)
    /\ recorded' = <<>>
    /\ UNCHANGED n_recorded
    /\ session' = "running"
    /\ event' = Called("initialize_system_resources", None, "none")
    /\ sent' = <<>>
    /\ UNCHANGED <<quality_options, engine, returned>>

initialize_system_resources ==
    /\ request_start_time' = Some(0)
    /\ recent_throughputs' = <<>>
    /\ active_quality_level' = Some(0)
    /\ recorded' = <<>>
    /\ UNCHANGED n_recorded
    /\ session' = "running"
    /\ event' = Called("initialize_system_resources", None, "none")
    /\ sent' = <<>>
    /\ UNCHANGED <<quality_options, engine, returned>>

\* mutant: the hook resets the quality level to 0 as the start hook does
release_allocated_resources_to_zero ==
    /\ request_start_time' = None
    /\ recent_throughputs' = <<>>
    /\ active_quality_level' = Some(0)
    /\ recorded' = <<>>
    /\ UNCHANGED n_recorded
    /\ session' = "released"
    /\ event' = Called("release_allocated_resources", None, "none")
    /\ sent' = <<>>
    /\ UNCHANGED <<quality_options, engine, returned>>

release_allocated_resources ==
    /\ request_start_time' = None
    /\ recent_throughputs' = <<>>
    /\ active_quality_level' = None
    /\ recorded' = <<>>
    /\ UNCHANGED n_recorded
    /\ session' = "released"
    /\ event' = Called("release_allocated_resources", None, "none")
    /\ sent' = <<>>
    /\ UNCHANGED <<quality_options, engine, returned>>

\* The host calls the four handlers while the session runs; the hooks open
\* and close it.

XmlRequest ==
    /\ session = "running"
    /\ \E m \in {None} \cup {Some(r) : r \in Requests}, now \in Times :
          process_xml_transaction(m, now)

XmlResponse ==
    /\ session = "running"
    /\ \E m \in Manifests, now \in Times : process_xml_response(m, now)

SegmentRequest ==
    /\ session = "running"
    /\ \E m \in Requests, now \in Times : process_segment_size_request(m, now)

SegmentResponse ==
    /\ session = "running"
    /\ \E m \in Segments, now \in Times : process_segment_size_response(m, now)

SessionStart == initialize_system_resources

SessionEnd == session = "running" /\ release_allocated_resources

Next ==
    \/ XmlRequest
    \/ XmlResponse
    \/ SegmentRequest
    \/ SegmentResponse
    \/ SessionStart
    \/ SessionEnd

Spec == Init /\ [][Next]_vars

-----------------------------------------------------------------------------
(* The engine called directly: the window is loaded with either method and  *)
(* update_video_quality is applied to the caller's index, which then takes  *)
(* the returned value as in lines 64-67 of process_segment_size_request.    *)

\* the throughput values the handlers can compute
Samples == {0} \cup {Throughput(b, e) : b \in BitLengths, e \in 1..MaxTime}

RECURSIVE Lists(_)
Lists(n) ==
    IF n = 0 THEN {<<>>}
    ELSE Lists(n - 1) \cup
         {Append(l, v) : l \in {x \in Lists(n - 1) : Len(x) = n - 1}, v \in Samples}

InputLists == Lists(MaxList)

IndexInputs == (0 - MaxIndex)..MaxIndex

InitEngine ==
    /\ recent_throughputs = <<>>
    /\ request_start_time = Some(0)
    /\ quality_options \in {Qi(k) : k \in 0..MaxDecisionLevels}
    /\ active_quality_level \in {Some(i) : i \in IndexInputs}
    /\ throughput_records = <<>>
    /\ throughput_mean = Int2Rat(0)
    /\ throughput_variability = Int2Rat(0)
    /\ event = Called("__init__", None, "none")
    /\ sent = <<>>
    /\ recorded = <<>>
    /\ n_recorded = 0
    /\ session = "running"
    /\ returned = Ok(None)

LoadHistory ==
    \E l \in InputLists :
        LET eng == update_throughput_history(l)
        IN  /\ throughput_records' = eng[1]
            /\ throughput_mean' = eng[2]
            /\ throughput_variability' = eng[3]
            /\ event' = Called("update_throughput_history", None, "none")
            /\ UNCHANGED <<controller, sent, recorded, session, n_recorded, returned>>

LoadList ==
    \E l \in InputLists :
        LET eng == update_throughput_list(l, throughput_variability)
        IN  /\ throughput_records' = eng[1]
            /\ throughput_mean' = eng[2]
            /\ throughput_variability' = eng[3]
            /\ event' = Called("update_throughput_list", None, "none")
            /\ UNCHANGED <<controller, sent, recorded, session, n_recorded, returned>>

Decide ==
    LET r == update_video_quality(throughput_mean, throughput_variability,
                                  active_quality_level, quality_options)
    IN  /\ returned' = r
        /\ event' = Called("update_video_quality", active_quality_level, r.tag)
        /\ active_quality_level' =
             IF r.tag = "ok" THEN r.val ELSE active_quality_level
        /\ UNCHANGED <<recent_throughputs, request_start_time, quality_options,
                       engine, sent, recorded, session, n_recorded>>

NextEngine ==
    \/ LoadHistory
    \/ LoadList
    \/ Decide

SpecEngine == InitEngine /\ [][NextEngine]_vars

\* ---- the replace step: by a segment request, and called directly ----

ReplaceLists == Lists(max_throughput_records + MaxOver)

\* update_throughput_history called on the engine with a sequence of any
\* length up to max_throughput_records + MaxOver
ReplaceHistory ==
    \E l \in ReplaceLists :
        LET eng == update_throughput_history(l)
        IN  /\ throughput_records' = eng[1]
            /\ throughput_mean' = eng[2]
            /\ throughput_variability' = eng[3]
            /\ event' = Called("update_throughput_history", Some(l), "none")
            /\ UNCHANGED <<controller, sent, recorded, session, n_recorded, returned>>

\* a segment response, while fewer than MaxReplaceRecorded samples are recorded
SegmentResponseBounded ==
    /\ n_recorded < MaxReplaceRecorded
    /\ SegmentResponse

NextReplace ==
    \/ SegmentResponseBounded
    \/ SegmentRequest
    \/ ReplaceHistory

SpecReplace == Init /\ [][NextReplace]_vars

-----------------------------------------------------------------------------
(* Properties *)

K == Len(quality_options)

ValidIndices == {Some(i) : i \in 0..(K - 1)}

\* the last n items of s, in their order
LastN(s, n) ==
    LET m == IF Len(s) < n THEN Len(s) ELSE n
    IN  [i \in 1..m |-> s[Len(s) - m + i]]

Handlers == {"process_xml_transaction", "process_xml_response",
             "process_segment_size_request", "process_segment_size_response"}

Responses == {"process_xml_response", "process_segment_size_response"}

Direction(name) == IF name \in Responses THEN "up" ELSE "down"

Decided == event.name = "update_video_quality"

\* C1: the throughput window never holds more than N = 5 samples and always
\* holds the (at most N) most recently recorded samples, oldest first; so
\* once more than N were recorded it holds exactly the N most recent.
C1_WindowHoldsLastN ==
    /\ Len(recent_throughputs) <= max_throughput_records
    /\ recent_throughputs = LastN(recorded, max_throughput_records)
    /\ Len(recorded) > max_throughput_records
         => Len(recent_throughputs) = max_throughput_records

\* more than N samples were recorded, and the evicted one differs from the
\* newest
C1_Witness ==
    /\ Len(recorded) = max_throughput_records + 1
    /\ recorded[1] # recorded[Len(recorded)]
    /\ event.name \in Responses

\* C2: with K >= 1 levels and an index in [0, K-1], update_video_quality
\* returns an index in [0, K-1], whatever the window (the empty one included).
C2_IndexInRange ==
    (Decided /\ K >= 1 /\ event.msg \in ValidIndices)
        => (returned.tag = "ok" /\ returned.val \in ValidIndices)

\* a decision from the top index of a set of two or more levels, taken on the
\* empty window
C2_Witness ==
    /\ Decided /\ K >= 2 /\ event.msg = Some(K - 1)
    /\ throughput_records = <<>>
    /\ returned.val \in ValidIndices

\* C3 (as claimed): every handler given a message forwards exactly that
\* message, a request downward and a response upward.
C3_ForwardsWhatItReceived ==
    (event.name \in Handlers /\ ~IsNone(event.msg))
        => /\ Len(sent) = 1
           /\ sent[1][1] = Direction(event.name)
           /\ [sent[1][2] EXCEPT !.quality_id = <<>>] = Get(event.msg)

\* C4 (as claimed): every handler runs to completion without raising, and a
\* segment request takes its index from the decision.
C4_NoFault ==
    event.name \in Handlers => event.raised = "none"

\* C5 (as claimed): update_video_quality returns a defined index for every
\* integer index passed, and one in [0, K-1] when K > 0.
C5_DecisionTotal ==
    Decided =>
        /\ returned.tag = "ok"
        /\ K > 0 => returned.val \in ValidIndices

C7_EmptyLevelsForwarded ==
    /\ \A l \in InputLists, i \in IndexInputs :
          LET eng == update_throughput_history(l)
          IN  update_video_quality(eng[2], eng[3], Some(i), <<>>) = Ok(Some(i))
    /\ (event.name = "process_segment_size_request" /\ K = 0)
          => /\ event.raised = "none"
             /\ sent = << <<"down", Get(event.msg)>> >>

\* a step of a response handler whose elapsed time is zero or negative leaves
\* the window, the mean and variance derived from it and the engine's
\* statistics as they were, and forwards the response upward
C8_SkippedResponse ==
    (/\ event'.name \in Responses
     /\ ~IsNone(request_start_time)
     /\ \E now \in Times :
          /\ now - Get(request_start_time) <= 0
          /\ \/ process_xml_response(Get(event'.msg), now)
             \/ process_segment_size_response(Get(event'.msg), now))
        => /\ recent_throughputs' = recent_throughputs
           /\ calculate_mean_and_variability(recent_throughputs')
                = calculate_mean_and_variability(recent_throughputs)
           /\ engine' = engine
           /\ sent' = << <<"up", Get(event'.msg)>> >>

\* C8: every step of a response handler with an elapsed time <= 0 records no
\* sample and forwards the response upward.
C8_NoSampleWithoutElapsedTime == [][C8_SkippedResponse]_vars

\* a response handled at a time not after the request: the request was
\* stamped with the latest time the clock shows
C8_Witness ==
    /\ event.name \in Responses
    /\ request_start_time = Some(MaxTime)
    /\ recent_throughputs # <<>>
    /\ Get(event.msg).bits > 0
    /\ sent = << <<"up", Get(event.msg)>> >>

ConstantPositive(w) ==
    /\ w # <<>>
    /\ \A i \in 1..Len(w) : w[i] = w[1] /\ w[1] > 0

EmptyWindow ==
    /\ throughput_records = <<>>
    /\ throughput_mean = Int2Rat(0)
    /\ throughput_variability = Int2Rat(0)

\* tau and theta of the decision just taken
TauTheta == calculate_tau_and_theta(throughput_mean, throughput_variability,
                                    event.msg, K).val

\* C10 (as claimed): on an empty window tau and theta are 0 and the index
\* comes back unchanged.
C10_EmptyWindowKeepsIndex ==
    (Decided /\ EmptyWindow /\ K >= 1 /\ event.msg \in ValidIndices)
        => /\ TauTheta = <<Int2Rat(0), Int2Rat(0)>>
           /\ returned = Ok(event.msg)

\* C10 (amended): on an empty window p = 0, theta is 0, tau is the distance
\* to the previous level (0 at index 0, else 1), and the decision returns
\* max(0, index - 1).
C10_EmptyWindowStepsDown ==
    (Decided /\ EmptyWindow /\ K >= 1 /\ event.msg \in ValidIndices)
        => /\ calculate_probability(throughput_mean, throughput_variability)
                = Int2Rat(0)
           /\ TauTheta = <<Int2Rat(IF Get(event.msg) = 0 THEN 0 ELSE 1),
                           Int2Rat(0)>>
           /\ returned = Ok(Some(Max(0, Get(event.msg) - 1)))

C10_Witness ==
    /\ Decided /\ EmptyWindow /\ K = 3 /\ event.msg = Some(2)
    /\ returned = Ok(Some(1))

\* the decision update_video_quality takes on window w alone: its statistics
\* are those calculate_mean_and_variability gives for w
DecisionOn(w, index, levels) ==
    LET mv == calculate_mean_and_variability(w)
    IN  update_video_quality(mv[1], mv[2], index, levels)

\* C11 (as claimed): the index returned depends on the window held, the index
\* passed and the level list only, whatever the engine was given before: it
\* is the one an engine holding the same window after update_throughput_history
\* returns.
C11_DecisionDependsOnInputsOnly ==
    Decided => returned = DecisionOn(throughput_records, event.msg, quality_options)

Released == event.name = "release_allocated_resources"

\* C12 (as claimed): after the session-end hook the window is empty and the
\* quality index is 0.
C12_TeardownResetsToZero ==
    Released => (recent_throughputs = <<>> /\ active_quality_level = Some(0))

\* C12 (amended): after the session-end hook the window is empty and the
\* quality index is None, as is the request time.
C12_TeardownClears ==
    Released => /\ recent_throughputs = <<>>
                /\ active_quality_level = None
                /\ request_start_time = None

\* the hook ran in a session that had recorded samples
C12_Witness ==
    /\ Released
    /\ n_recorded > 0
    /\ throughput_records # <<>>

Probability == calculate_probability(throughput_mean, throughput_variability)

\* C13: the probability computed from the engine's mean and variability is in
\* [0, 1], and is 0 when their sum is 0.
C13_ProbabilityInUnitInterval ==
    /\ Probability[2] > 0
    /\ 0 <= Probability[1]
    /\ Probability[1] <= Probability[2]
    /\ (throughput_mean[1] * throughput_variability[2]
          + throughput_variability[1] * throughput_mean[2] = 0)
         => Probability[1] = 0

\* a decision taken with a probability strictly between 0 and 1
C13_Witness ==
    /\ Decided
    /\ 0 < Probability[1]
    /\ Probability[1] < Probability[2]
    /\ throughput_records # <<>>

SegmentRequested == event.name = "process_segment_size_request"

\* a step of a handler assigns active_quality_level only in a segment request,
\* and then the index update_video_quality returns for the window just loaded,
\* the index held before and the level list
C14_Step ==
    /\ event'.name = "process_segment_size_request"
         => LET d == update_video_quality(throughput_mean', throughput_variability',
                                          active_quality_level, quality_options)
            IN  d.tag = "ok" /\ active_quality_level' = d.val
    /\ event'.name \in Handlers \ {"process_segment_size_request"}
         => active_quality_level' = active_quality_level

\* C14 (as claimed): each segment request assigns active_quality_level the
\* index the decision returns, and the other three handlers leave it unchanged.
C14_AssignedByDecisionOnly == [][C14_Step]_vars

\* C15 (as claimed): a segment request is forwarded downward carrying the
\* level identifier at the new active_quality_level when that index is valid
\* for the level list, and no identifier otherwise.
C15_IdentifierOfNewIndex ==
    SegmentRequested =>
        /\ Len(sent) = 1
        /\ sent[1][1] = "down"
        /\ sent[1][2].quality_id =
             IF active_quality_level \in ValidIndices
             THEN <<quality_options[Get(active_quality_level) + 1]>>
             ELSE <<>>

RECURSIVE IsSubsequence(_, _)
\* a is obtained from b by dropping elements, the rest in b's order
IsSubsequence(a, b) ==
    IF a = <<>> THEN TRUE
    ELSE IF b = <<>> THEN FALSE
    ELSE IF Head(a) = Head(b) THEN IsSubsequence(Tail(a), Tail(b))
                                    \/ IsSubsequence(a, Tail(b))
    ELSE IsSubsequence(a, Tail(b))

Replaced == event.name = "update_throughput_history"

\* C16: after the replace step of a segment request the engine's window is
\* the controller's buffer, sample for sample, whatever the engine held
\* before; after a replace with any sequence the window has at most
\* max_throughput_records samples, all taken from the sequence in its order
\* (the code keeps the last ones), and is the sequence itself when it fits.
C16_ReplaceLoadsBuffer ==
    /\ SegmentRequested => throughput_records = recent_throughputs
    /\ Replaced =>
         /\ Len(throughput_records) <= max_throughput_records
         /\ IsSubsequence(throughput_records, Get(event.msg))
         /\ Len(Get(event.msg)) <= max_throughput_records
              => throughput_records = Get(event.msg)
         /\ throughput_records = LastN(Get(event.msg), max_throughput_records)

\* a sequence longer than the capacity, of unequal samples, replaced a window
\* while the controller's buffer held something else
C16_Witness ==
    /\ Replaced
    /\ Len(Get(event.msg)) > max_throughput_records
    /\ Get(event.msg)[1] # Get(event.msg)[Len(Get(event.msg))]
    /\ recent_throughputs # <<>>
    /\ recent_throughputs # throughput_records

\* a segment request replaced a window loaded directly by the buffer
C16_WitnessRequest ==
    /\ SegmentRequested
    /\ recent_throughputs # <<>>
    /\ throughput_records = recent_throughputs

RECURSIVE SumOf(_)
SumOf(w) == IF w = <<>> THEN 0 ELSE Head(w) + SumOf(Tail(w))

Squares(w) == [i \in 1..Len(w) |-> w[i] * w[i]]

\* arithmetic mean of the samples of w, 0 for none
MeanOf(w) == IF w = <<>> THEN Int2Rat(0) ELSE Rat(SumOf(w), Len(w))

\* population variance of the samples of w (mean of the squares less the
\* square of the mean), 0 for none
VarianceOf(w) ==
    IF w = <<>> THEN Int2Rat(0)
    ELSE Rat(Len(w) * SumOf(Squares(w)) - SumOf(w) * SumOf(w), Len(w) * Len(w))

\* C17 (as claimed): whenever a decision is taken, the mean and the variance
\* it reads are the arithmetic mean and the population variance of the samples
\* the engine's window holds then (both 0 for an empty window), whether
\* update_throughput_history or update_throughput_list loaded them.
C17_StatisticsOfWindow ==
    Decided => /\ throughput_mean = MeanOf(throughput_records)
               /\ throughput_variability = VarianceOf(throughput_records)

\* the half of C17 that holds: the mean a decision reads is the window's
C17_MeanOfWindow ==
    Decided => throughput_mean = MeanOf(throughput_records)

\* the probability of the window l, and the index decided on it from the
\* index and the levels of the last decision
ProbabilityOn(l) ==
    LET h == update_throughput_history(l) IN calculate_probability(h[2], h[3])

DecisionAgain(l) == DecisionOn(l, event.msg, quality_options)

DecidedInRange == Decided /\ K >= 1 /\ event.msg \in ValidIndices

\* C18: for a level list of K >= 1 entries and an index in 0..K-1, the index
\* returned does not decrease when the probability increases: the decision
\* just taken, compared with the decision on every other window for the same
\* index and levels, is the lower one when its probability is the lower one and
\* the higher one when its probability is the higher one (so equal
\* probabilities give equal indices), also where the raw value is halfway
\* between two indices.
C18_MonotoneInProbability ==
    DecidedInRange =>
        /\ returned.tag = "ok"
        /\ \A l \in InputLists :
             /\ DecisionAgain(l).tag = "ok"
             /\ RLeq(ProbabilityOn(l), Probability)
                  => Get(DecisionAgain(l).val) <= Get(returned.val)
             /\ RLeq(Probability, ProbabilityOn(l))
                  => Get(returned.val) <= Get(DecisionAgain(l).val)

\* a decision at the top index with probability 1/2, whose raw value K - 3/2
\* is halfway between two indices, and a window of another probability that
\* gives another index
C18_Witness ==
    /\ DecidedInRange
    /\ K >= 2
    /\ event.msg = Some(K - 1)
    /\ Probability = Rat(1, 2)
    /\ \E l \in InputLists : DecisionAgain(l).val # returned.val

\* C19: one decision moves the index by at most one level: for a level list
\* of K >= 1 entries, an index in 0..K-1 and any window of non-negative
\* samples, the index returned differs from the index given by at most 1.
C19_MovesAtMostOneLevel ==
    DecidedInRange =>
        /\ returned.tag = "ok"
        /\ Abs(Get(returned.val) - Get(event.msg)) <= 1

\* a decision that moved the index, away from both ends of the level list
C19_Witness ==
    /\ DecidedInRange
    /\ K >= 3
    /\ Get(event.msg) >= 1
    /\ Get(event.msg) <= K - 2
    /\ returned.tag = "ok"
    /\ returned.val # event.msg
    /\ throughput_records # <<>>

Initialized == event.name = "initialize_system_resources"

\* C20: after initialize_system_resources the controller's window is empty
\* and active_quality_level is 0; and at every segment request the window, the
\* mean and the variability the decision reads are those of the samples
\* recorded since the last restart (the last max_throughput_records of them),
\* whatever was recorded before it and whatever the engine still held when
\* the hook ran.
C20_RestartForgetsHistory ==
    /\ Initialized => /\ recent_throughputs = <<>>
                      /\ active_quality_level = Some(0)
    /\ SegmentRequested =>
         /\ <<throughput_records, throughput_mean, throughput_variability>>
              = update_throughput_history(LastN(recorded, max_throughput_records))
         /\ throughput_mean = MeanOf(throughput_records)
         /\ throughput_variability = VarianceOf(throughput_records)

\* a segment request after a restart, with samples recorded before the
\* restart and other samples after it
C20_Witness ==
    /\ SegmentRequested
    /\ Len(recorded) > 0
    /\ n_recorded > Len(recorded)
    /\ throughput_records # <<>>

\* the hook ran and left the engine's window, mean and variability as they were
C20_WitnessEngineKept ==
    /\ Initialized
    /\ throughput_records # <<>>
    /\ throughput_mean # Int2Rat(0)
    /\ throughput_variability # Int2Rat(0)

=============================================================================
